---- MODULE Spec2Model ----
(***************************************************************************)
(* SoundSlide firmware: GestureDecoder (fw/src/gesture.cpp) driving the    *)
(* HidEndpoint report encoder (fw/src/keys.cpp).                           *)
(*                                                                         *)
(* One Tick is one run of GestureDecoder::onTimer: checkSensor, checkTap,  *)
(* optimizeQueue, checkQueue, with every reportKey / reportScroll /        *)
(* sendReport call they make.  TxComplete is the transport's completion    *)
(* callback HidEndpoint::txComplete, Setup one control request handled by  *)
(* HidInterface::setup.                                                    *)
(***************************************************************************)
EXTENDS Integers, Sequences, FiniteSets, TLC

VARIABLES
    \* GestureDecoder fields
    oldFingerPos, queue, touchStartTime, lastTapTime, currentTime,
    hasMoved, isTouching, waitingForDoubleTap, releaseProcessed,
    \* DeviceConfiguration fields read by the decoder
    flip, scale, function,
    \* TouchSensor: the channel intensities of the current sampling period
    channels,
    \* HidEndpoint fields
    key, count, scroll, txBuffer,
    \* transport: the reports handed to startTx since the last event began,
    \* and whether a started transmission has not completed yet
    sent, inFlight,
    \* observer: the last reportKey / reportScroll call that started a report,
    \* and the number of completion callbacks since
    event, acks,
    \* KeyReporter calls made by the decoder during the last tick, in order,
    \* and the value checkQueue read from the oldest queue slot in that tick
    calls, lastChange,
    \* the tick path inside a HidEndpoint call: its position, and the
    \* arguments and locals of the call (statement-level specification only)
    pc, frame,
    \* observer of the finger on the strip: the touch in progress and the
    \* tap events seen since a first tap began (see NextScene)
    scene,
    \* observer: number of consecutive ticks that ended with the wait open
    waitRun,
    \* observer: the magnitude of opposite deltas the queue held when the
    \* last tick optimized it
    cancelled,
    \* observer: a second decoder fed the same samples under the configuration
    \* flip = false, scale = 1 (kept only where twin.on)
    twin,
    \* observer: per key, the units asked for by reportKey and the down-phase
    \* and up-phase transmissions started (kept only where tally.on)
    tally,
    \* HidInterface::setup: the last control request and what the control
    \* endpoint was told to do with it
    request, control,
    \* observer: the sum of the raw deltas written into slot 0 and of their
    \* magnitudes, the sum of the values read from the oldest slot, and the
    \* ticks since the last raw delta (kept only where ledger.on)
    ledger

decoderVars == <<oldFingerPos, queue, touchStartTime, lastTapTime, currentTime,
                 hasMoved, isTouching, waitingForDoubleTap, releaseProcessed>>
configVars == <<flip, scale, function>>
hidVars == <<key, count, scroll, txBuffer, sent, inFlight, event, acks>>
obsVars == <<scene, waitRun, cancelled, twin, ledger>>
setupVars == <<request, control>>
callVars == <<pc, frame>>
vars == <<decoderVars, configVars, channels, hidVars, calls, lastChange,
         callVars, obsVars, tally, setupVars>>

----------------------------------------------------------------------------
(* Program constants *)

KEY_VOLUME_UP == 0
KEY_VOLUME_DOWN == 1
KEY_BRIGHTNESS_UP == 2
KEY_BRIGHTNESS_DOWN == 3
KEY_MIC_MUTE == 4
KEY_LOCK_WORKSTATION == 5

HID_GET_DESCRIPTOR == 6
HID_DESCRIPTOR_TYPE_REPORT == 34

\* the bytes of the HID report descriptor
hidReportDescriptor ==
    << 5, 12, 9, 1, 161, 1, 9, 233, 9, 234, 9, 111,
       9, 112, 9, 248, 21, 0, 37, 1, 117, 1, 149, 5,
       129, 2, 149, 3, 129, 3, 192, 5, 1, 9, 2, 161,
       1, 9, 1, 161, 0, 9, 56, 21, 129, 37, 127, 117,
       8, 149, 1, 129, 6, 192, 192, 5, 1, 9, 6, 161,
       1, 5, 7, 25, 224, 41, 231, 21, 0, 37, 1, 117,
       1, 149, 8, 129, 2, 5, 7, 25, 0, 41, 101, 21,
       0, 37, 101, 117, 8, 149, 1, 129, 0, 192 >>

MODIFIER_LEFT_GUI == 8
KEY_CODE_L == 15

queueSize == 4
TAP_MAX_DURATION == 15
DOUBLE_TAP_WINDOW == 20

DEVICE_FUNCTION_VOLUME == "volume"
DEVICE_FUNCTION_BRIGHTNESS == "brightness"
DEVICE_FUNCTION_SCROLL == "scroll"
DeviceFunctions ==
    {DEVICE_FUNCTION_VOLUME, DEVICE_FUNCTION_BRIGHTNESS, DEVICE_FUNCTION_SCROLL}

----------------------------------------------------------------------------
(* Machine arithmetic *)

\* conversion of an int to signed char (queue entries)
ToSChar(x) == ((x + 128) % 256) - 128

\* conversion of an int to unsigned char (report bytes)
ToUChar(x) == x % 256

\* C integer division, truncating toward zero
CDiv(a, b) == IF a >= 0 THEN a \div b ELSE -((-a) \div b)

Abs(x) == IF x < 0 THEN -x ELSE x

\* the four report bytes, all zero
ZeroReport == [i \in 0..3 |-> 0]

\* the empty 4-entry queue
ZeroQueue == [i \in 0..(queueSize - 1) |-> 0]

----------------------------------------------------------------------------
(* HidEndpoint.  m is the record of all decoder and endpoint fields that    *)
(* one handler run threads through its calls.                               *)

\* usbd::UsbEndpoint::startTx as called at the end of sendReport: the
\* transport takes the current content of txBuffer
startTx(m) == [m EXCEPT !.sent = Append(@, m.txBuffer), !.inFlight = TRUE]

\* faulty variant of sendReport: the pending scroll value is not cleared
sendReport_KeepsScroll(m) ==
    LET keyDown == (m.count % 2) = 0
        keyed ==
            IF m.count > 0 /\ keyDown
            THEN IF m.key = KEY_LOCK_WORKSTATION
                 THEN [ZeroReport EXCEPT ![2] = MODIFIER_LEFT_GUI,
                                         ![3] = KEY_CODE_L]
                 ELSE [ZeroReport EXCEPT ![0] = ToUChar(2 ^ m.key)]
            ELSE ZeroReport
        count1 == IF m.count > 0 THEN m.count - 1 ELSE m.count
        buffer == [keyed EXCEPT ![1] = ToUChar(m.scroll)]
    IN  startTx([m EXCEPT !.txBuffer = buffer, !.count = count1])

\* faulty variant of sendReport: the consumer byte gets the key number, not
\* the bit 1 << key
sendReport_KeyNumber(m) ==
    LET keyDown == (m.count % 2) = 0
        keyed ==
            IF m.count > 0 /\ keyDown
            THEN IF m.key = KEY_LOCK_WORKSTATION
                 THEN [ZeroReport EXCEPT ![2] = MODIFIER_LEFT_GUI,
                                         ![3] = KEY_CODE_L]
                 ELSE [ZeroReport EXCEPT ![0] = ToUChar(m.key)]
            ELSE ZeroReport
        count1 == IF m.count > 0 THEN m.count - 1 ELSE m.count
        buffer == [keyed EXCEPT ![1] = ToUChar(m.scroll)]
    IN  startTx([m EXCEPT !.txBuffer = buffer, !.count = count1,
                          !.scroll = 0])

\* HidEndpoint::sendReport
sendReport(m) ==
    LET cleared == ZeroReport
        keyDown == (m.count % 2) = 0
        keyed ==
            IF m.count > 0
            THEN IF m.key = KEY_LOCK_WORKSTATION
                 THEN IF keyDown
                      THEN [cleared EXCEPT ![2] = MODIFIER_LEFT_GUI,
                                           ![3] = KEY_CODE_L]
                      ELSE cleared
                 ELSE IF keyDown
                      THEN [cleared EXCEPT ![0] = ToUChar(2 ^ m.key)]
                      ELSE cleared
            ELSE cleared
        count1 == IF m.count > 0 THEN m.count - 1 ELSE m.count
        buffer == [keyed EXCEPT ![1] = ToUChar(m.scroll)]
    IN  startTx([m EXCEPT !.txBuffer = buffer, !.count = count1, !.scroll = 0])

\* faulty variant of reportKey: the counter is not doubled
reportKey_Once(m, k, n) ==
    IF n # 0
    THEN sendReport([m EXCEPT !.key = k, !.count = n])
    ELSE m

\* HidEndpoint::reportKey
reportKey(m, k, n) ==
    IF n # 0
    THEN sendReport([m EXCEPT !.key = k, !.count = n * 2])
    ELSE m

\* HidEndpoint::reportScroll
reportScroll(m, steps) ==
    sendReport([m EXCEPT !.key = 0, !.count = 0, !.scroll = steps])

\* HidEndpoint::txComplete
txComplete(m) == IF m.count # 0 THEN sendReport(m) ELSE m

\* a new event reaches the endpoint: the observers start over
Observe(m, call) == [m EXCEPT !.event = call, !.sent = <<>>, !.acks = 0]

\* keyReporter->reportKey(k, n), logged in calls
CallReportKey(m, k, n) ==
    LET call == <<"reportKey", k, n>>
        logged == [m EXCEPT !.calls = Append(@, call)]
    IN  reportKey(IF n # 0 THEN Observe(logged, call) ELSE logged, k, n)

\* keyReporter->reportScroll(steps), logged in calls
CallReportScroll(m, steps) ==
    LET call == <<"reportScroll", steps>>
        logged == [m EXCEPT !.calls = Append(@, call)]
    IN  reportScroll(Observe(logged, call), steps)

----------------------------------------------------------------------------
(* HidInterface::setup *)

\* a | b on non-negative integers
RECURSIVE BitOr(_, _)
BitOr(a, b) ==
    IF a = 0 THEN b
    ELSE IF b = 0 THEN a
    ELSE (IF a % 2 = 1 \/ b % 2 = 1 THEN 1 ELSE 0)
         + 2 * BitOr(a \div 2, b \div 2)

\* the int value of a comparison
Truth(b) == IF b THEN 1 ELSE 0

\* faulty variant of the request test: wIndex is not looked at
IsReportDescriptorRequest_AnyIndex(bRequest, wValue, wIndex) ==
    /\ bRequest = HID_GET_DESCRIPTOR
    /\ wValue = HID_DESCRIPTOR_TYPE_REPORT * 2 ^ 8

\* the condition of setup as C++ parses it: == binds tighter than |, and |
\* tighter than &&, so the middle operand is
\* (wValue == (HID_DESCRIPTOR_TYPE_REPORT << 8)) | 0
IsReportDescriptorRequest(bRequest, wValue, wIndex) ==
    /\ bRequest = HID_GET_DESCRIPTOR
    /\ BitOr(Truth(wValue = HID_DESCRIPTOR_TYPE_REPORT * 2 ^ 8), 0) # 0
    /\ wIndex = 0

\* memcpy(endpoint->txBufferPtr, hidReportDescriptor, n), the buffer being
\* large enough
memcpy(c, bytes) ==
    [c EXCEPT !.txBuffer =
        bytes \o SubSeq(@, Len(bytes) + 1, Len(@))]

\* endpoint->startTx(n) on the control endpoint
controlStartTx(c, n) == [c EXCEPT !.sent = SubSeq(c.txBuffer, 1, n)]

\* endpoint->stall()
stall(c) == [c EXCEPT !.stalled = TRUE]

\* HidInterface::setup on the control endpoint c
setup(c, req) ==
    IF IsReportDescriptorRequest(req.bRequest, req.wValue, req.wIndex)
    THEN controlStartTx(memcpy(c, hidReportDescriptor),
                        Len(hidReportDescriptor))
    ELSE stall(c)

----------------------------------------------------------------------------
(* GestureDecoder::checkSensor *)

\* the loop over the channels: running max, sum and index of the first
\* maximal channel, from channel i (0-based) on
RECURSIVE ScanChannels(_, _, _, _, _)
ScanChannels(ch, i, max, avg, maxIndex) ==
    IF i >= Len(ch)
    THEN [max |-> max, avg |-> avg, maxIndex |-> maxIndex]
    ELSE LET v == ch[i + 1]
         IN  IF v > max
             THEN ScanChannels(ch, i + 1, v, avg + v, i)
             ELSE ScanChannels(ch, i + 1, max, avg + v, maxIndex)

\* faulty variant of the threshold test: >= instead of >
AboveThreshold_Inclusive(max, sum, channelCount) ==
    max >= CDiv(sum, channelCount) * 2

\* the threshold test max > avg * 2 on the integer average
AboveThreshold(max, sum, channelCount) == max > CDiv(sum, channelCount) * 2

\* newFingerPos: index of the maximal channel, or -1 for no contact
FingerPos(ch) ==
    LET r == ScanChannels(ch, 0, 0, 0, 0)
    IN  IF AboveThreshold(r.max, r.avg, Len(ch)) THEN r.maxIndex ELSE -1

\* faulty variant of the raw delta: the flip setting is not applied
RawDelta_NoFlip(m, oldPos, newPos) == ToSChar((oldPos - newPos) * m.scale)

\* the raw delta written to queue[0]: flipped, scaled, stored as signed char
RawDelta(m, oldPos, newPos) ==
    LET change == oldPos - newPos
        flipped == IF m.flip THEN -change ELSE change
    IN  ToSChar(flipped * m.scale)

\* whether this sample counts as finger movement
Moved(oldPos, newPos) ==
    newPos # oldPos /\ newPos >= 0 /\ oldPos >= 0 /\ oldPos - newPos # 0

checkSensor(m, ch) ==
    LET newFingerPos == FingerPos(ch)
        began == newFingerPos >= 0 /\ ~m.isTouching
        ended == ~began /\ newFingerPos < 0 /\ m.isTouching
        m1 == IF began
              THEN [m EXCEPT !.isTouching = TRUE,
                             !.touchStartTime = m.currentTime,
                             !.hasMoved = FALSE,
                             !.releaseProcessed = FALSE]
              ELSE IF ended
                   THEN [m EXCEPT !.isTouching = FALSE]
                   ELSE m
        m2 == IF Moved(m.oldFingerPos, newFingerPos)
              THEN [m1 EXCEPT !.hasMoved = TRUE,
                              !.queue[0] = RawDelta(m, m.oldFingerPos,
                                                   newFingerPos)]
              ELSE m1
    IN  [m2 EXCEPT !.oldFingerPos = newFingerPos]

----------------------------------------------------------------------------
(* GestureDecoder::checkTap *)

\* faulty variant of the tap test: movement is not looked at
ValidTap_IgnoresMovement(touchDuration, moved) ==
    touchDuration < TAP_MAX_DURATION /\ touchDuration > 0

\* valid tap: short duration and no movement
ValidTap(touchDuration, moved) ==
    touchDuration < TAP_MAX_DURATION /\ touchDuration > 0 /\ ~moved

\* faulty variant of the window test: the tap duration limit is used
InWindow_TapLimit(now, last) == (now - last) < TAP_MAX_DURATION

\* the second tap came within the window of the first
InWindow(now, last) == (now - last) < DOUBLE_TAP_WINDOW

\* faulty variant of the expiry test: > instead of >=
WindowExpired_Strict(now, last) == (now - last) > DOUBLE_TAP_WINDOW

\* the window has expired without a second tap
WindowExpired(now, last) == (now - last) >= DOUBLE_TAP_WINDOW

\* faulty variant of the release branch: a tap released while a wait is open
\* is a double tap whatever the time since the first, and the wait is left
\* for the expiry branch to close
checkRelease_LeavesWait(m) ==
    IF ~m.isTouching /\ ~m.releaseProcessed
    THEN LET m1 == [m EXCEPT !.releaseProcessed = TRUE]
             touchDuration == m.currentTime - m.touchStartTime
         IN  IF ValidTap(touchDuration, m.hasMoved)
             THEN IF m.waitingForDoubleTap
                  THEN CallReportKey(m1, KEY_LOCK_WORKSTATION, 1)
                  ELSE [m1 EXCEPT !.waitingForDoubleTap = TRUE,
                                  !.lastTapTime = m.currentTime]
             ELSE m1
    ELSE m

\* the release branch of checkTap
checkRelease(m) ==
    IF ~m.isTouching /\ ~m.releaseProcessed
    THEN LET m1 == [m EXCEPT !.releaseProcessed = TRUE]
             touchDuration == m.currentTime - m.touchStartTime
         IN  IF ValidTap(touchDuration, m.hasMoved)
             THEN IF m.waitingForDoubleTap
                     /\ InWindow(m.currentTime, m.lastTapTime)
                  THEN [CallReportKey(m1, KEY_LOCK_WORKSTATION, 1)
                            EXCEPT !.waitingForDoubleTap = FALSE]
                  ELSE [m1 EXCEPT !.waitingForDoubleTap = TRUE,
                                  !.lastTapTime = m.currentTime]
             ELSE m1
    ELSE m

\* the expiry branch of checkTap
checkExpiry(m) ==
    IF m.waitingForDoubleTap /\ WindowExpired(m.currentTime, m.lastTapTime)
    THEN [CallReportKey(m, KEY_MIC_MUTE, 1)
              EXCEPT !.waitingForDoubleTap = FALSE]
    ELSE m

checkTap(m) == checkExpiry(checkRelease(m))

----------------------------------------------------------------------------
(* GestureDecoder::optimizeQueue *)

\* first loop: sum of the positive entries
RECURSIVE Positives(_, _)
Positives(q, i) ==
    IF i >= queueSize THEN 0
    ELSE (IF q[i] > 0 THEN q[i] ELSE 0) + Positives(q, i + 1)

\* first loop: sum of the magnitudes of the negative entries
RECURSIVE Negatives(_, _)
Negatives(q, i) ==
    IF i >= queueSize THEN 0
    ELSE (IF q[i] < 0 THEN -q[i] ELSE 0) + Negatives(q, i + 1)

\* side of the entries to clear: -1 when positives > negatives, else 1
Side(positives, negatives) == IF positives > negatives THEN -1 ELSE 1

\* faulty variant of the correction: always the positive sum
Correction_Positives(positives, negatives) == positives

\* the amount to take from the surviving side
Correction(positives, negatives) ==
    IF positives > negatives THEN negatives ELSE positives

\* second loop: clear the entries on the given side
ClearSide(q, side) ==
    [i \in 0..(queueSize - 1) |-> IF q[i] * side > 0 THEN 0 ELSE q[i]]

\* faulty variant of the third loop: it runs from index 0 up
RECURSIVE Absorb_NewestFirst(_, _, _, _)
Absorb_NewestFirst(q, i, correction, side) ==
    IF i < 0 THEN q
    ELSE LET j == queueSize - 1 - i
             v == Abs(q[j])
             c == IF correction > v THEN v ELSE correction
         IN  Absorb_NewestFirst([q EXCEPT ![j] = ToSChar(q[j] + c * side)],
                                i - 1, correction - c, side)

\* third loop: from index i down to 0, each entry absorbs what it can
RECURSIVE Absorb(_, _, _, _)
Absorb(q, i, correction, side) ==
    IF i < 0 THEN q
    ELSE LET v == Abs(q[i])
             c == IF correction > v THEN v ELSE correction
         IN  Absorb([q EXCEPT ![i] = ToSChar(q[i] + c * side)],
                    i - 1, correction - c, side)

OptimizedQueue(q) ==
    LET positives == Positives(q, 0)
        negatives == Negatives(q, 0)
        side == Side(positives, negatives)
        correction == Correction(positives, negatives)
    IN  Absorb(ClearSide(q, side), queueSize - 1, correction, side)

optimizeQueue(m) == [m EXCEPT !.queue = OptimizedQueue(m.queue)]

----------------------------------------------------------------------------
(* GestureDecoder::checkQueue *)

\* faulty variant of the switch: a negative value is passed on as it is
dispatch_Signed(m, c) ==
    IF m.function = DEVICE_FUNCTION_VOLUME
    THEN IF c > 0 THEN CallReportKey(m, KEY_VOLUME_UP, c)
         ELSE IF c < 0 THEN CallReportKey(m, KEY_VOLUME_DOWN, c)
         ELSE m
    ELSE IF m.function = DEVICE_FUNCTION_BRIGHTNESS
    THEN IF c > 0 THEN CallReportKey(m, KEY_BRIGHTNESS_UP, c)
         ELSE IF c < 0 THEN CallReportKey(m, KEY_BRIGHTNESS_DOWN, c)
         ELSE m
    ELSE IF m.function = DEVICE_FUNCTION_SCROLL
    THEN CallReportScroll(m, c)
    ELSE m

\* the switch on the configured function
dispatch(m, c) ==
    IF m.function = DEVICE_FUNCTION_VOLUME
    THEN IF c > 0 THEN CallReportKey(m, KEY_VOLUME_UP, c)
         ELSE IF c < 0 THEN CallReportKey(m, KEY_VOLUME_DOWN, -c)
         ELSE m
    ELSE IF m.function = DEVICE_FUNCTION_BRIGHTNESS
    THEN IF c > 0 THEN CallReportKey(m, KEY_BRIGHTNESS_UP, c)
         ELSE IF c < 0 THEN CallReportKey(m, KEY_BRIGHTNESS_DOWN, -c)
         ELSE m
    ELSE IF m.function = DEVICE_FUNCTION_SCROLL
    THEN CallReportScroll(m, c)
    ELSE m

\* faulty variant of the shift: slot 0 is not cleared
ShiftedQueue_KeepsNewest(q) ==
    [i \in 0..(queueSize - 1) |-> IF i = 0 THEN q[0] ELSE q[i - 1]]

\* faulty variant of the shift: the entries move two slots
ShiftedQueue_ByTwo(q) ==
    [i \in 0..(queueSize - 1) |-> IF i < 2 THEN 0 ELSE q[i - 2]]

\* shift queue: each entry moves one slot toward the tail, slot 0 cleared
ShiftedQueue(q) ==
    [i \in 0..(queueSize - 1) |-> IF i = 0 THEN 0 ELSE q[i - 1]]

checkQueue(m) ==
    LET c == m.queue[queueSize - 1]
    IN  [dispatch(m, c) EXCEPT !.queue = ShiftedQueue(m.queue), !.lastChange = c]

----------------------------------------------------------------------------
(* GestureDecoder::onTimer *)

\* the fields one handler run reads and writes, with the configuration it
\* reads
Machine ==
    [flip |-> flip, scale |-> scale, function |-> function,
     oldFingerPos |-> oldFingerPos, queue |-> queue,
     touchStartTime |-> touchStartTime, lastTapTime |-> lastTapTime,
     currentTime |-> currentTime, hasMoved |-> hasMoved,
     isTouching |-> isTouching,
     waitingForDoubleTap |-> waitingForDoubleTap,
     releaseProcessed |-> releaseProcessed,
     key |-> key, count |-> count, scroll |-> scroll,
     txBuffer |-> txBuffer, sent |-> sent, inFlight |-> inFlight,
     event |-> event, acks |-> acks,
     calls |-> calls, lastChange |-> lastChange]

Store(m) ==
    /\ oldFingerPos' = m.oldFingerPos
    /\ queue' = m.queue
    /\ touchStartTime' = m.touchStartTime
    /\ lastTapTime' = m.lastTapTime
    /\ currentTime' = m.currentTime
    /\ hasMoved' = m.hasMoved
    /\ isTouching' = m.isTouching
    /\ waitingForDoubleTap' = m.waitingForDoubleTap
    /\ releaseProcessed' = m.releaseProcessed
    /\ key' = m.key
    /\ count' = m.count
    /\ scroll' = m.scroll
    /\ txBuffer' = m.txBuffer
    /\ sent' = m.sent
    /\ inFlight' = m.inFlight
    /\ event' = m.event
    /\ acks' = m.acks
    /\ calls' = m.calls
    /\ lastChange' = m.lastChange

onTimer(m, ch) ==
    LET m0 == [m EXCEPT !.currentTime = @ + 1, !.calls = <<>>]
    IN  checkQueue(optimizeQueue(checkTap(checkSensor(m0, ch))))

----------------------------------------------------------------------------
(* Observers.  They watch the sensor samples and the KeyReporter calls     *)
(* only, never the decoder's own bookkeeping.                              *)

TouchLevel == 3

\* the channel the finger rests on in a sample (a channel at TouchLevel),
\* or -1 when no channel is touched
TouchedChannel(ch) ==
    IF \E i \in 1..Len(ch) : ch[i] >= TouchLevel
    THEN (CHOOSE i \in 1..Len(ch) : ch[i] >= TouchLevel) - 1
    ELSE -1

IsKeyCall(c, k) == c[1] = "reportKey" /\ c[2] = k

\* number of reportKey(k, ..) calls in a call log
KeyCalls(log, k) == Cardinality({i \in 1..Len(log) : IsKeyCall(log[i], k)})

SingleTaps(log) == KeyCalls(log, KEY_MIC_MUTE)
DoubleTaps(log) == KeyCalls(log, KEY_LOCK_WORKSTATION)

NoScene ==
    [ph |-> "idle", start |-> 0, moved |-> FALSE, first |-> FALSE,
     rel |-> 0, singles |-> 0, doubles |-> 0, at |-> 0]

\* a touch of d ticks qualifies as a tap
Qualifies(d, moved) == d >= 1 /\ d <= 14 /\ ~moved

\* The scene after the tick t with finger position pos0 before and pos1 now,
\* wait telling whether a double-tap wait was open before the tick, log the
\* calls of the tick.
\*   touch : contact since tick start; moved: the finger changed channel;
\*           first: no wait was open when it began; rel: release tick of the
\*           first tap when this touch began during that tap's open wait
\*   quiet : a first tap was released at tick rel, no contact since
\*   double: a second tap was released fewer than 20 ticks after rel
\* singles, doubles, at: SingleTap / DoubleTap calls since the first tap's
\* touch began, and the tick of the last SingleTap
NextScene(s, wait, pos0, pos1, t, log) ==
    LET counted == [s EXCEPT !.singles = @ + SingleTaps(log),
                             !.doubles = @ + DoubleTaps(log),
                             !.at = IF SingleTaps(log) > 0 THEN t ELSE @]
        tracked == s.first \/ s.rel # 0
    IN  IF pos1 >= 0 /\ pos0 < 0
        THEN IF ~wait
             THEN [NoScene EXCEPT !.ph = "touch", !.start = t, !.first = TRUE,
                                  !.singles = SingleTaps(log),
                                  !.doubles = DoubleTaps(log),
                                  !.at = IF SingleTaps(log) > 0 THEN t ELSE 0]
             ELSE IF s.ph = "quiet"
                  THEN [counted EXCEPT !.ph = "touch", !.start = t]
                  ELSE [NoScene EXCEPT !.ph = "touch", !.start = t]
        ELSE IF pos1 >= 0
        THEN [(IF tracked THEN counted ELSE s)
                  EXCEPT !.moved = @ \/ pos1 # pos0]
        ELSE IF pos0 >= 0
        THEN IF Qualifies(t - s.start, s.moved) /\ s.first
             THEN [counted EXCEPT !.ph = "quiet", !.start = 0,
                                  !.first = FALSE, !.rel = t]
             ELSE IF Qualifies(t - s.start, s.moved) /\ s.rel # 0
                     /\ t - s.rel < 20
                  THEN [counted EXCEPT !.ph = "double", !.start = 0]
                  ELSE NoScene
        ELSE IF s.ph = "quiet" THEN counted ELSE NoScene

RECURSIVE SumTo(_, _)
SumTo(q, i) == IF i < 0 THEN 0 ELSE q[i] + SumTo(q, i - 1)

\* the sum of the 4 entries
QueueSum(q) == SumTo(q, queueSize - 1)

PositiveSum(q) ==
    QueueSum([i \in 0..(queueSize - 1) |-> IF q[i] > 0 THEN q[i] ELSE 0])

NegativeSum(q) ==
    QueueSum([i \in 0..(queueSize - 1) |-> IF q[i] < 0 THEN -q[i] ELSE 0])

\* no two nonzero entries have opposite signs
OneSign(q) == \A i, j \in 0..(queueSize - 1) : q[i] * q[j] >= 0

\* the raw delta the sensor step writes for a finger going from pos0 to pos1
\* (none when the finger is absent or stays)
ObservedDelta(pos0, pos1) ==
    IF pos0 >= 0 /\ pos1 >= 0 /\ pos0 # pos1
    THEN (IF flip THEN pos1 - pos0 ELSE pos0 - pos1) * scale
    ELSE 0

\* the queue optimizeQueue finds in a tick: the queue q left by the previous
\* tick, with the raw delta of this tick, if any, in slot 0
QueueSeen(q, pos0, pos1) ==
    LET d == ObservedDelta(pos0, pos1)
    IN  IF d # 0 THEN [q EXCEPT ![0] = d] ELSE q

\* the magnitude that opposite entries of q cancel
Cancelled(q) ==
    IF PositiveSum(q) < NegativeSum(q) THEN PositiveSum(q) ELSE NegativeSum(q)

\* no second decoder is kept
NoTwin == [on |-> FALSE]

\* the configuration flip = false, scale = 1, same function
Plain(m) == [m EXCEPT !.flip = FALSE, !.scale = 1]

\* a second decoder, as constructed, under the plain configuration
TwinOf(m) == [on |-> TRUE, m |-> Plain(m)]

\* no ledger is kept
NoLedger == [on |-> FALSE]

\* nothing fed and nothing read yet
ZeroLedger == [on |-> TRUE, fed |-> 0, gross |-> 0, out |-> 0, quiet |-> 0]

\* the ticks without a raw delta that the ledger tells apart
QuietTicks == 4

\* the ledger after a tick that wrote the raw delta d into slot 0 (d = 0:
\* none) and read v from the oldest slot
Booked(l, d, v) ==
    IF l.on
    THEN [l EXCEPT !.fed = @ + d, !.gross = @ + Abs(d), !.out = @ + v,
                   !.quiet = IF d # 0 THEN 0
                             ELSE IF @ < QuietTicks THEN @ + 1 ELSE @]
    ELSE l

\* the keys of keys.cpp
Keys == KEY_VOLUME_UP..KEY_LOCK_WORKSTATION

\* no tally is kept
NoTally == [on |-> FALSE]

ZeroTally ==
    [on |-> TRUE, asked |-> [k \in Keys |-> 0], downs |-> [k \in Keys |-> 0],
     ups |-> [k \in Keys |-> 0]]

\* the key whose down-phase report r is (whatever its scroll byte), or -1
\* when r has consumer, modifier and key-code byte zero or matches no key
KeyOfReport(r) ==
    IF r[0] = 0 /\ r[2] = MODIFIER_LEFT_GUI /\ r[3] = KEY_CODE_L
    THEN KEY_LOCK_WORKSTATION
    ELSE IF r[2] = 0 /\ r[3] = 0
            /\ \E k \in KEY_VOLUME_UP..KEY_MIC_MUTE : r[0] = 2 ^ k
         THEN CHOOSE k \in KEY_VOLUME_UP..KEY_MIC_MUTE : r[0] = 2 ^ k
         ELSE -1

\* the tally after reportKey(k, n) was called
Asked(t, k, n) == IF t.on THEN [t EXCEPT !.asked[k] = @ + n] ELSE t

\* the tally after the transmission of report r was started while the last
\* event was pending: a down phase of the key r shows, else an up phase of
\* the key of the pending reportKey
Transmitted(t, r, pending) ==
    IF ~t.on THEN t
    ELSE IF KeyOfReport(r) >= 0
    THEN [t EXCEPT !.downs[KeyOfReport(r)] = @ + 1]
    ELSE IF pending # <<>> /\ pending[1] = "reportKey"
    THEN [t EXCEPT !.ups[pending[2]] = @ + 1]
    ELSE t

\* the tally after a run that took the endpoint from n0 transmissions of the
\* pending event to the record m
Started(t, m, n0) ==
    IF Len(m.sent) > n0
    THEN Transmitted(t, m.sent[Len(m.sent)], m.event)
    ELSE t

----------------------------------------------------------------------------
(* Actions *)

\* one timer tick on a sample ch from samples, while the tick counter is below
\* maxTime
Tick(samples, maxTime) ==
    /\ currentTime < maxTime
    /\ \E ch \in samples :
          \E m \in {onTimer(Machine, ch)} :
             /\ channels' = ch
             /\ Store(m)
             /\ scene' = NextScene(scene, waitingForDoubleTap,
                                   TouchedChannel(channels), TouchedChannel(ch),
                                   m.currentTime, m.calls)
             /\ waitRun' = IF m.waitingForDoubleTap THEN waitRun + 1 ELSE 0
             /\ cancelled' = Cancelled(QueueSeen(queue,
                                                 TouchedChannel(channels),
                                                 TouchedChannel(ch)))
             /\ twin' = IF twin.on
                        THEN [twin EXCEPT !.m = onTimer(@, ch)]
                        ELSE twin
             /\ ledger' = Booked(ledger,
                                 ObservedDelta(TouchedChannel(channels),
                                               TouchedChannel(ch)),
                                 m.lastChange)
    /\ UNCHANGED <<configVars, callVars, tally, setupVars>>

\* the transport reports the end of the transmission in flight
Completed(m) == [m EXCEPT !.inFlight = FALSE, !.acks = @ + 1]

TxComplete ==
    /\ inFlight
    /\ \E m \in {txComplete(Completed(Machine))} :
          /\ Store(m)
          /\ tally' = Started(tally, m, Len(sent))
    /\ UNCHANGED <<configVars, channels, callVars, obsVars, setupVars>>

----------------------------------------------------------------------------
(* Initial state: the decoder and the endpoint as constructed (a static     *)
(* object: queue and txBuffer zero), for a given configuration.             *)

InitDecoder ==
    /\ oldFingerPos = -1
    /\ touchStartTime = 0
    /\ lastTapTime = 0
    /\ currentTime = 0
    /\ hasMoved = FALSE
    /\ isTouching = FALSE
    /\ waitingForDoubleTap = FALSE
    /\ releaseProcessed = TRUE

InitHid ==
    /\ key = 0
    /\ count = 0
    /\ scroll = 0
    /\ txBuffer = ZeroReport
    /\ sent = <<>>
    /\ inFlight = FALSE
    /\ event = <<>>
    /\ acks = 0
    /\ calls = <<>>
    /\ lastChange = 0

\* the queue of a decoder in static storage
InitQueue == queue = ZeroQueue

InitObservers ==
    /\ scene = NoScene
    /\ waitRun = 0
    /\ cancelled = 0

\* no control request was handled yet
NoRequest == [bRequest |-> -1, wValue |-> -1, wIndex |-> -1]

\* the control endpoint: its transmit buffer, the bytes handed to startTx
\* and whether it was stalled, for the last control request
NoControl == [txBuffer |-> <<>>, sent |-> <<>>, stalled |-> FALSE]

InitSetup ==
    /\ request = NoRequest
    /\ control = NoControl

NoFrame == [k |-> 0, n |-> 0, steps |-> 0, keyDown |-> FALSE]

InitCall ==
    /\ pc = "idle"
    /\ frame = NoFrame

----------------------------------------------------------------------------
(* Tap specification: three channels, a finger on channel 0, on channel 1, *)
(* or no finger.                                                           *)

MaxTime == 24

TapSamples == {<<0, 0, 0>>, <<TouchLevel, 0, 0>>, <<0, TouchLevel, 0>>}

Init ==
    /\ InitDecoder
    /\ InitQueue
    /\ InitHid
    /\ InitObservers
    /\ InitCall
    /\ InitSetup
    /\ ledger = NoLedger
    /\ tally = NoTally
    /\ twin = NoTwin
    /\ flip = FALSE
    /\ scale = 1
    /\ function = DEVICE_FUNCTION_VOLUME
    /\ channels = <<0, 0, 0>>

TapTick == Tick(TapSamples, MaxTime)

\* The decoder never reads the endpoint, so the completion callback is left
\* to the specifications of the endpoint.
Next == TapTick

Spec == Init /\ [][Next]_vars

----------------------------------------------------------------------------
(* Slide specification: four channels, every configuration, the completion *)
(* callback between the ticks.                                             *)

SlideMaxTime == 6
MaxScale == 2

SlideSamples ==
    {<<0, 0, 0, 0>>, <<TouchLevel, 0, 0, 0>>, <<0, TouchLevel, 0, 0>>,
     <<0, 0, TouchLevel, 0>>, <<0, 0, 0, TouchLevel>>}

SlideInit ==
    /\ InitDecoder
    /\ InitQueue
    /\ InitHid
    /\ InitObservers
    /\ InitCall
    /\ InitSetup
    /\ ledger = NoLedger
    /\ tally = NoTally
    /\ flip \in BOOLEAN
    /\ scale \in 1..MaxScale
    /\ function \in DeviceFunctions
    /\ channels = <<0, 0, 0, 0>>
    /\ twin = TwinOf(Machine)

SlideTick == Tick(SlideSamples, SlideMaxTime)

SlideNext == SlideTick \/ TxComplete

SlideSpec == SlideInit /\ [][SlideNext]_vars

----------------------------------------------------------------------------
(* Ledger specification: the decoder alone on four channels, every flip    *)
(* and scale, in Scroll mode (every value read from the oldest slot is     *)
(* passed on, 0 included), with the ledger of what went into and came out  *)
(* of the queue.                                                           *)

LedgerMaxTime == 7

LedgerInit ==
    /\ InitDecoder
    /\ InitQueue
    /\ InitHid
    /\ scene = NoScene
    /\ waitRun = 0
    /\ cancelled = 0
    /\ twin = NoTwin
    /\ ledger = ZeroLedger
    /\ InitCall
    /\ request = NoRequest
    /\ control = NoControl
    /\ tally = NoTally
    /\ flip \in BOOLEAN
    /\ scale \in 1..MaxScale
    /\ function = DEVICE_FUNCTION_SCROLL
    /\ channels = <<0, 0, 0, 0>>

LedgerTick == Tick(SlideSamples, LedgerMaxTime)

LedgerNext == LedgerTick

LedgerSpec == LedgerInit /\ [][LedgerNext]_vars

----------------------------------------------------------------------------
(* Position specification: the tracker on every sample of 1..MaxChannels   *)
(* channels with intensities 0..MaxIntensity.  The sensor's channel count  *)
(* is fixed in Init.                                                       *)

MaxChannels == 3
MaxIntensity == 3
PosMaxTime == 2

\* all samples of n channels
SamplesOf(n) == [1..n -> 0..MaxIntensity]

PosInit ==
    /\ InitDecoder
    /\ InitQueue
    /\ InitHid
    /\ InitObservers
    /\ InitCall
    /\ InitSetup
    /\ ledger = NoLedger
    /\ tally = NoTally
    /\ twin = NoTwin
    /\ flip = FALSE
    /\ scale = 1
    /\ function = DEVICE_FUNCTION_VOLUME
    /\ \E n \in 1..MaxChannels : channels \in SamplesOf(n)

PosTick == Tick(SamplesOf(Len(channels)), PosMaxTime)

PosNext == PosTick

PosSpec == PosInit /\ [][PosNext]_vars

----------------------------------------------------------------------------
(* Queue specification: optimizeQueue on every content of the queue with   *)
(* entries in -MaxEntry..MaxEntry (Init draws the content the first tick   *)
(* finds), then on the contents the ticks produce.                         *)

MaxEntry == 3
QueueMaxTime == 3

QueueInit ==
    /\ InitDecoder
    /\ InitHid
    /\ InitObservers
    /\ InitCall
    /\ InitSetup
    /\ ledger = NoLedger
    /\ tally = NoTally
    /\ twin = NoTwin
    /\ flip = FALSE
    /\ scale = 1
    /\ function = DEVICE_FUNCTION_SCROLL
    /\ channels = <<0, 0, 0, 0>>
    /\ queue \in [0..(queueSize - 1) -> (-MaxEntry)..MaxEntry]

QueueTick == Tick(SlideSamples, QueueMaxTime)

QueueNext == QueueTick

QueueSpec == QueueInit /\ [][QueueNext]_vars

----------------------------------------------------------------------------
(* Endpoint specification: HidEndpoint alone, driven through KeyReporter    *)
(* by any sequence of reportKey and reportScroll calls, each run as a       *)
(* whole, with the completion callback between them.                        *)

HidMaxCount == 2
HidMaxScroll == 2
HidMaxUnits == 3

RECURSIVE TotalTo(_, _)
TotalTo(f, k) == IF k < 0 THEN 0 ELSE f[k] + TotalTo(f, k - 1)

\* the units asked for so far, all keys together
TotalAsked == TotalTo(tally.asked, KEY_LOCK_WORKSTATION)

\* everything a call on the endpoint leaves alone
HidFrame == <<configVars, channels, callVars, obsVars, setupVars>>

\* keyReporter->reportKey(k, n), at most HidMaxUnits units in all
HidReportKey ==
    /\ \E k \in Keys, n \in 1..HidMaxCount :
          /\ TotalAsked + n <= HidMaxUnits
          /\ \E m \in {CallReportKey([Machine EXCEPT !.calls = <<>>], k, n)} :
                /\ Store(m)
                /\ tally' = Started(Asked(tally, k, n), m, 0)
    /\ UNCHANGED HidFrame

\* keyReporter->reportScroll(d)
HidReportScroll ==
    /\ \E d \in (-HidMaxScroll)..HidMaxScroll :
          \E m \in {CallReportScroll([Machine EXCEPT !.calls = <<>>], d)} :
             /\ Store(m)
             /\ tally' = Started(tally, m, 0)
    /\ UNCHANGED HidFrame

HidInit ==
    /\ InitDecoder
    /\ InitQueue
    /\ InitHid
    /\ InitObservers
    /\ InitCall
    /\ InitSetup
    /\ ledger = NoLedger
    /\ tally = ZeroTally
    /\ twin = NoTwin
    /\ flip = FALSE
    /\ scale = 1
    /\ function = DEVICE_FUNCTION_VOLUME
    /\ channels = <<0, 0, 0>>

HidNext == HidReportKey \/ HidReportScroll \/ TxComplete

HidSpec == HidInit /\ [][HidNext]_vars

----------------------------------------------------------------------------
(* Setup specification: HidInterface::setup on control requests with       *)
(* bRequest, wValue and wIndex drawn from the values below.                *)

MaxIndex == 2

\* GET_REPORT, GET_DESCRIPTOR, SET_REPORT, SET_IDLE, SET_PROTOCOL and 0
SetupRequests == {0, 1, 6, 9, 10, 11}

\* 0, device descriptor, HID descriptor, report descriptor (index 0 and 1),
\* physical descriptor
SetupValues == {0, 256, 8448, 8704, 8705, 8960}

\* the host sends a control request to the interface
Setup ==
    /\ \E b \in SetupRequests, v \in SetupValues, i \in 0..MaxIndex :
          /\ request' = [bRequest |-> b, wValue |-> v, wIndex |-> i]
          /\ control' = setup(NoControl, request')
    /\ UNCHANGED <<decoderVars, configVars, channels, hidVars, calls,
                   lastChange, callVars, obsVars, tally>>

SetupInit ==
    /\ InitDecoder
    /\ InitQueue
    /\ InitHid
    /\ InitObservers
    /\ InitCall
    /\ InitSetup
    /\ ledger = NoLedger
    /\ tally = NoTally
    /\ twin = NoTwin
    /\ flip = FALSE
    /\ scale = 1
    /\ function = DEVICE_FUNCTION_VOLUME
    /\ channels = <<0, 0, 0>>

SetupNext == Setup

SetupSpec == SetupInit /\ [][SetupNext]_vars

----------------------------------------------------------------------------
(* Statement-level specification of the endpoint: the tick path runs        *)
(* reportKey / reportScroll / sendReport one statement at a time, and the   *)
(* completion callback txComplete may run, as a whole, between any two of   *)
(* its statements.  Nothing in HidEndpoint excludes this.                   *)

RaceMaxCount == 2
RaceMaxScroll == 1
RaceMaxAcks == 4

\* keys the decoder reports
RaceKeys == {KEY_VOLUME_UP, KEY_MIC_MUTE, KEY_LOCK_WORKSTATION}

\* everything the statements of the tick path leave alone
RaceFrame ==
    <<decoderVars, configVars, channels, calls, lastChange, obsVars, tally,
      setupVars>>

\* the tick path goes from statement at to statement to
Goto(at, to) == pc = at /\ pc' = to

\* the tick path calls reportKey(k, n); n # 0, so the body is entered
RaceCallReportKey ==
    /\ \E k \in RaceKeys, n \in 1..RaceMaxCount :
          /\ frame' = [NoFrame EXCEPT !.k = k, !.n = n]
          /\ event' = <<"reportKey", k, n>>
    /\ Goto("idle", "key_key")
    /\ sent' = <<>>
    /\ acks' = 0
    /\ UNCHANGED <<key, count, scroll, txBuffer, inFlight, RaceFrame>>

\* this->key = key;
RaceKeyKey ==
    /\ Goto("key_key", "key_count")
    /\ key' = frame.k
    /\ UNCHANGED <<count, scroll, txBuffer, sent, inFlight, event, acks,
                   frame, RaceFrame>>

\* this->count = count * 2;
RaceKeyCount ==
    /\ Goto("key_count", "clear0")
    /\ count' = frame.n * 2
    /\ UNCHANGED <<key, scroll, txBuffer, sent, inFlight, event, acks,
                   frame, RaceFrame>>

\* the tick path calls reportScroll(steps)
RaceCallReportScroll ==
    /\ \E st \in (-RaceMaxScroll)..RaceMaxScroll :
          /\ frame' = [NoFrame EXCEPT !.steps = st]
          /\ event' = <<"reportScroll", st>>
    /\ Goto("idle", "scroll_key")
    /\ sent' = <<>>
    /\ acks' = 0
    /\ UNCHANGED <<key, count, scroll, txBuffer, inFlight, RaceFrame>>

\* this->key = 0;
RaceScrollKey ==
    /\ Goto("scroll_key", "scroll_count")
    /\ key' = 0
    /\ UNCHANGED <<count, scroll, txBuffer, sent, inFlight, event, acks,
                   frame, RaceFrame>>

\* this->count = 0;
RaceScrollCount ==
    /\ Goto("scroll_count", "scroll_steps")
    /\ count' = 0
    /\ UNCHANGED <<key, scroll, txBuffer, sent, inFlight, event, acks,
                   frame, RaceFrame>>

\* this->scroll = steps;
RaceScrollSteps ==
    /\ Goto("scroll_steps", "clear0")
    /\ scroll' = frame.steps
    /\ UNCHANGED <<key, count, txBuffer, sent, inFlight, event, acks,
                   frame, RaceFrame>>

\* the four clearing statements of sendReport and the one after them
ClearPc == <<"clear0", "clear1", "clear2", "clear3", "test">>

\* sendReport: txBuffer[i] = 0; for i = 0..3
RaceClear ==
    /\ \E i \in 0..3 :
          /\ Goto(ClearPc[i + 1], ClearPc[i + 2])
          /\ txBuffer' = [txBuffer EXCEPT ![i] = 0]
    /\ UNCHANGED <<key, count, scroll, sent, inFlight, event, acks,
                   frame, RaceFrame>>

\* sendReport: if (count > 0)
RaceTest ==
    /\ pc = "test"
    /\ pc' = IF count > 0 THEN "keyDown" ELSE "scroll"
    /\ UNCHANGED <<hidVars, frame, RaceFrame>>

\* sendReport: bool keyDown = !(count & 1);
RaceKeyDown ==
    /\ Goto("keyDown", "branch")
    /\ frame' = [frame EXCEPT !.keyDown = (count % 2) = 0]
    /\ UNCHANGED <<hidVars, RaceFrame>>

\* sendReport: if (key == KEY_LOCK_WORKSTATION) { if (keyDown) .. } else
\* { if (keyDown) .. }
RaceBranch ==
    /\ pc = "branch"
    /\ pc' = IF ~frame.keyDown THEN "dec"
             ELSE IF key = KEY_LOCK_WORKSTATION THEN "modifier" ELSE "bit"
    /\ UNCHANGED <<hidVars, frame, RaceFrame>>

\* sendReport: txBuffer[2] = MODIFIER_LEFT_GUI;
RaceModifier ==
    /\ Goto("modifier", "code")
    /\ txBuffer' = [txBuffer EXCEPT ![2] = MODIFIER_LEFT_GUI]
    /\ UNCHANGED <<key, count, scroll, sent, inFlight, event, acks,
                   frame, RaceFrame>>

\* sendReport: txBuffer[3] = KEY_CODE_L;
RaceCode ==
    /\ Goto("code", "dec")
    /\ txBuffer' = [txBuffer EXCEPT ![3] = KEY_CODE_L]
    /\ UNCHANGED <<key, count, scroll, sent, inFlight, event, acks,
                   frame, RaceFrame>>

\* sendReport: txBuffer[0] = (1 << key);
RaceBit ==
    /\ Goto("bit", "dec")
    /\ txBuffer' = [txBuffer EXCEPT ![0] = ToUChar(2 ^ key)]
    /\ UNCHANGED <<key, count, scroll, sent, inFlight, event, acks,
                   frame, RaceFrame>>

\* sendReport: count--;
RaceDec ==
    /\ Goto("dec", "scroll")
    /\ count' = count - 1
    /\ UNCHANGED <<key, scroll, txBuffer, sent, inFlight, event, acks,
                   frame, RaceFrame>>

\* sendReport: txBuffer[1] = scroll;
RaceScroll ==
    /\ Goto("scroll", "scroll0")
    /\ txBuffer' = [txBuffer EXCEPT ![1] = ToUChar(scroll)]
    /\ UNCHANGED <<key, count, scroll, sent, inFlight, event, acks,
                   frame, RaceFrame>>

\* sendReport: scroll = 0;
RaceScrollZero ==
    /\ Goto("scroll0", "startTx")
    /\ scroll' = 0
    /\ UNCHANGED <<key, count, txBuffer, sent, inFlight, event, acks,
                   frame, RaceFrame>>

\* sendReport: startTx(sizeof(txBuffer)); and return to the caller
RaceStartTx ==
    /\ Goto("startTx", "idle")
    /\ sent' = Append(sent, txBuffer)
    /\ inFlight' = TRUE
    /\ frame' = NoFrame
    /\ UNCHANGED <<key, count, scroll, txBuffer, event, acks, RaceFrame>>

\* the completion callback, run as a whole wherever the tick path stands (at
\* most RaceMaxAcks times per event)
RaceTxComplete == acks < RaceMaxAcks /\ TxComplete

RaceInit ==
    /\ InitDecoder
    /\ InitQueue
    /\ InitHid
    /\ InitObservers
    /\ InitCall
    /\ InitSetup
    /\ ledger = NoLedger
    /\ tally = NoTally
    /\ twin = NoTwin
    /\ flip = FALSE
    /\ scale = 1
    /\ function = DEVICE_FUNCTION_VOLUME
    /\ channels = <<0, 0, 0>>

RaceNext ==
    \/ RaceCallReportKey \/ RaceKeyKey \/ RaceKeyCount
    \/ RaceCallReportScroll \/ RaceScrollKey \/ RaceScrollCount
    \/ RaceScrollSteps
    \/ RaceClear \/ RaceTest \/ RaceKeyDown \/ RaceBranch
    \/ RaceModifier \/ RaceCode \/ RaceBit \/ RaceDec
    \/ RaceScroll \/ RaceScrollZero \/ RaceStartTx
    \/ RaceTxComplete

RaceSpec == RaceInit /\ [][RaceNext]_vars

----------------------------------------------------------------------------
(* Claims on the tap state machine, checked under Spec *)

\* C1: a first tap (no wait open when the touch began, constant position,
\* released 1 to 14 ticks after it began) followed by ticks without contact
\* has produced no DoubleTap and, up to 19 ticks after the release, no
\* SingleTap; from the 20th tick after the release on it has produced exactly
\* one SingleTap, emitted on the tick exactly 20 ticks after the release.
C1_SingleTap ==
    /\ (scene.ph = "touch" /\ scene.first) =>
           (scene.singles = 0 /\ scene.doubles = 0)
    /\ scene.ph = "quiet" =>
           /\ scene.doubles = 0
           /\ IF currentTime - scene.rel < 20
              THEN scene.singles = 0
              ELSE scene.singles = 1 /\ scene.at = scene.rel + 20

\* C1 witness: a first tap was released, 20 quiet ticks have passed and its
\* SingleTap has been emitted
C1_Witness ==
    scene.ph = "quiet" /\ currentTime >= scene.rel + 20 /\ scene.singles = 1

\* C2: on the tick where the second of two qualifying taps is released
\* fewer than 20 ticks after the release of the first (which began with no
\* wait open), the decoder emits exactly one DoubleTap, it is the only
\* DoubleTap and no SingleTap was emitted since the first tap began, and the
\* wait is closed.
C2_DoubleTap ==
    scene.ph = "double" =>
        /\ DoubleTaps(calls) = 1
        /\ SingleTaps(calls) = 0
        /\ scene.doubles = 1
        /\ scene.singles = 0
        /\ ~waitingForDoubleTap

\* C2 witness: a second tap has just been released inside the window
C2_Witness == scene.ph = "double" /\ DoubleTaps(calls) = 1

\* C7: on the tick where the release of a touch is observed that lasted 15 or
\* more ticks, or during which the finger changed channel, no DoubleTap is
\* emitted, lastTapTime keeps its value, no wait is opened, and an open wait
\* stays open unless it expires on this very tick.
C7_Release(t) ==
    /\ DoubleTaps(calls') = 0
    /\ lastTapTime' = lastTapTime
    /\ waitingForDoubleTap' =
           (waitingForDoubleTap /\ t - lastTapTime < DOUBLE_TAP_WINDOW)

C7_NotATap ==
    [][ ( /\ scene.ph = "touch"
          /\ TouchedChannel(channels') < 0
          /\ currentTime' = currentTime + 1
          /\ (currentTime' - scene.start >= 15 \/ scene.moved) )
        => C7_Release(currentTime') ]_vars

\* C7 witness: a touch that lasted 15 or more ticks, or moved, has just been
\* released while a wait was open, and the wait is still open
C7_Witness ==
    /\ scene = NoScene
    /\ TouchedChannel(channels) < 0
    /\ ~isTouching /\ releaseProcessed
    /\ ~hasMoved /\ currentTime - touchStartTime >= 15
    /\ waitingForDoubleTap
    /\ currentTime - lastTapTime > 0

\* C8: when a wait opened by a tap released at tick r is still open at the end
\* of tick r+19 (no second tap completed it), the tick r+20 emits a SingleTap,
\* whatever the sensor shows on that tick.
C8_SingleTapAfterWindow ==
    [][ ( /\ waitingForDoubleTap
          /\ currentTime' = lastTapTime + DOUBLE_TAP_WINDOW )
        => SingleTaps(calls') = 1 ]_vars

\* C9: the wait is never open at the end of more than 20 consecutive ticks.
C9_WaitBounded == waitRun <= DOUBLE_TAP_WINDOW

\* C16: no tick emits more than one tap event: the calls of one onTimer run
\* (checkTap is run once in it) hold at most one of
\* reportKey(KEY_LOCK_WORKSTATION, 1) and reportKey(KEY_MIC_MUTE, 1), and
\* neither twice.
C16_OneTapEventPerTick == SingleTaps(calls) + DoubleTaps(calls) <= 1

\* C16 witness: a second tap was released on the last tick of the window,
\* 19 ticks after the first, and the tick emitted the DoubleTap alone
C16_Witness ==
    /\ DoubleTaps(calls) = 1
    /\ currentTime - lastTapTime = DOUBLE_TAP_WINDOW - 1
    /\ ~waitingForDoubleTap

----------------------------------------------------------------------------
(* Claims on the decoder with the endpoint, checked under SlideSpec *)

\* the key-down report of a key
DownReport(k) ==
    IF k = KEY_LOCK_WORKSTATION
    THEN [i \in 0..3 |-> IF i = 2 THEN 8 ELSE IF i = 3 THEN 15 ELSE 0]
    ELSE [i \in 0..3 |-> IF i = 0 THEN 2 ^ k ELSE 0]

\* a report with a consumer bit, a modifier or a key code set
IsDown(r) == r[0] # 0 \/ r[2] # 0 \/ r[3] # 0

\* the tap key emitted in a call log
TapKey(log) ==
    IF DoubleTaps(log) > 0 THEN KEY_LOCK_WORKSTATION ELSE KEY_MIC_MUTE

\* C3: in every slide function, at the end of a tick in which the decoder
\* emitted a SingleTap or DoubleTap, the report left with the transport is the
\* key-down report of that tap, and the pending key and pacing counter are
\* those of the tap (its key-up report is the next one).
C3_TapIndependentOfFunction ==
    [][ ( /\ currentTime' = currentTime + 1
          /\ SingleTaps(calls') + DoubleTaps(calls') > 0 )
        => ( /\ txBuffer' = DownReport(TapKey(calls'))
             /\ key' = TapKey(calls')
             /\ count' = 1 ) ]_vars

Min(a, b) == IF a < b THEN a ELSE b

\* C5: after reportKey(key, n), n >= 1, and a completion callbacks with no
\* other event, exactly min(2n, 1 + a) transmissions have been started,
\* alternating down, up, .. starting with down, and the pacing counter is 2n
\* minus that number (0 after the 2n-th, when a further callback starts
\* nothing).  A slot value of +3 in Volume mode is the event
\* reportKey(KEY_VOLUME_UP, 3).
C5_KeyPacing ==
    /\ (event # <<>> /\ event[1] = "reportKey") =>
          LET n == event[3]
          IN  /\ n >= 1
              /\ Len(sent) = Min(2 * n, 1 + acks)
              /\ count = 2 * n - Len(sent)
              /\ \A i \in 1..Len(sent) : IsDown(sent[i]) <=> (i % 2 = 1)
    /\ (function = DEVICE_FUNCTION_VOLUME /\ lastChange = 3) =>
          event = <<"reportKey", KEY_VOLUME_UP, 3>>

\* C5 witness: a Volume slot value of +3 was dispatched, its 6 transmissions
\* are out and the completion of the last one has started nothing
C5_Witness ==
    /\ event = <<"reportKey", KEY_VOLUME_UP, 3>>
    /\ Len(sent) = 6
    /\ count = 0
    /\ acks = 6
    /\ ~inFlight

----------------------------------------------------------------------------
(* Claim on the endpoint under preemption, checked under RaceSpec *)

\* C4: whenever the pacing counter is 0 and no call is in progress, the most
\* recently started transmission has consumer byte, modifier byte and
\* key-code byte all zero (no key is left down).
C4_NoStuckKey ==
    (count = 0 /\ pc = "idle" /\ sent # <<>>) => ~IsDown(sent[Len(sent)])

----------------------------------------------------------------------------
(* Claim on optimizeQueue, checked under QueueSpec *)

\* the queue optimizeQueue finds in this step's tick
QueueBefore ==
    QueueSeen(queue, TouchedChannel(channels), TouchedChannel(channels'))

\* the queue optimizeQueue leaves in a tick: slot 3 is the value checkQueue
\* reads, slots 0..2 are what the shift moves to slots 1..3
QueueAfter ==
    [i \in 0..(queueSize - 1) |->
        IF i = queueSize - 1 THEN lastChange' ELSE queue'[i + 1]]

\* C6: in every tick, the sum of the 4 entries after optimizeQueue equals
\* positiveSum - negativeSum of the content before it, and no two nonzero
\* entries have opposite signs.
C6_QueueInvariant ==
    [][ currentTime' = currentTime + 1 =>
          /\ QueueSum(QueueAfter) =
                 PositiveSum(QueueBefore) - NegativeSum(QueueBefore)
          /\ OneSign(QueueAfter) ]_vars

\* C6 witness: a tick has optimized a queue that held both signs, one side
\* was cancelled and the other survives in the slot read and behind it
C6_Witness ==
    /\ cancelled > 0
    /\ lastChange # 0
    /\ queue[1] # 0
    /\ OneSign(queue)

----------------------------------------------------------------------------
(* Claim on the position tracker, checked under PosSpec *)

RECURSIVE SeqSum(_)
SeqSum(ch) == IF ch = <<>> THEN 0 ELSE Head(ch) + SeqSum(Tail(ch))

SeqMax(ch) ==
    CHOOSE v \in {ch[i] : i \in 1..Len(ch)} : \A i \in 1..Len(ch) : ch[i] <= v

\* the first channel (0-based) holding the maximum
FirstMaxIndex(ch) ==
    (CHOOSE i \in 1..Len(ch) :
        /\ ch[i] = SeqMax(ch)
        /\ \A j \in 1..(i - 1) : ch[j] < SeqMax(ch)) - 1

\* C10 as claimed: after a tick, the position is -1 whenever N x max <= 2 x
\* sum, and a position >= 0 is the index of the maximal channel and occurs
\* only when N x max > 2 x sum.
C10_ThresholdExactMean ==
    currentTime > 0 =>
        LET n == Len(channels)
        IN  IF n * SeqMax(channels) <= 2 * SeqSum(channels)
            THEN oldFingerPos = -1
            ELSE oldFingerPos = FirstMaxIndex(channels)

\* C10 amended: with average the integer quotient sum / N (rounded down),
\* the position is -1 whenever max <= 2 x average, and it is the index of
\* the (first) maximal channel exactly when max > 2 x average.
C10_ThresholdIntegerMean ==
    currentTime > 0 =>
        LET average == SeqSum(channels) \div Len(channels)
        IN  IF SeqMax(channels) <= 2 * average
            THEN oldFingerPos = -1
            ELSE oldFingerPos = FirstMaxIndex(channels)

\* C10 witness: a sample with max = 2 x (sum / N) > 0 was read as no contact
\* although one channel is silent
C10_Witness ==
    /\ currentTime > 0
    /\ Len(channels) = 3
    /\ SeqMax(channels) = 2 * (SeqSum(channels) \div 3)
    /\ SeqMax(channels) > 0
    /\ \E i \in 1..3 : channels[i] = 0
    /\ oldFingerPos = -1

----------------------------------------------------------------------------
(* Claims on the slide path, checked under SlideSpec *)

\* the factor the configuration puts on a raw delta
Factor == (IF flip THEN -1 ELSE 1) * scale

\* the key of the opposite direction
Opposite(k) ==
    IF k = KEY_VOLUME_UP THEN KEY_VOLUME_DOWN
    ELSE IF k = KEY_VOLUME_DOWN THEN KEY_VOLUME_UP
    ELSE IF k = KEY_BRIGHTNESS_UP THEN KEY_BRIGHTNESS_DOWN
    ELSE KEY_BRIGHTNESS_UP

IsTapCall(c) ==
    c[1] = "reportKey" /\ c[2] \in {KEY_MIC_MUTE, KEY_LOCK_WORKSTATION}

\* what a call of the plain configuration becomes under flip and scale
Mirrored(c) ==
    IF c[1] = "reportScroll" THEN <<"reportScroll", Factor * c[2]>>
    ELSE IF IsTapCall(c) THEN c
    ELSE <<"reportKey", IF flip THEN Opposite(c[2]) ELSE c[2], scale * c[3]>>

\* C11: on every tick, for the same finger positions, the value read from the
\* oldest slot is that of the configuration flip = false, scale = 1
\* multiplied by the scale and negated under flip, and the calls made are
\* those of the plain configuration with the slide event's direction inverted
\* under flip and its magnitude multiplied by the scale, in Volume,
\* Brightness and Scroll mode alike.
C11_FlipScale ==
    twin.on =>
        /\ lastChange = Factor * twin.m.lastChange
        /\ Len(calls) = Len(twin.m.calls)
        /\ \A i \in 1..Len(calls) : calls[i] = Mirrored(twin.m.calls[i])

\* C11 witness: under flip = true and scale = 2 a slide value was dispatched
\* that the plain configuration dispatched as a positive value
C11_Witness ==
    /\ twin.on /\ flip /\ scale = 2
    /\ twin.m.lastChange > 0
    /\ lastChange = -2 * twin.m.lastChange
    /\ calls # <<>>

\* the calls of a tick that report the slide
SlideCalls(log) == SelectSeq(log, LAMBDA c : ~IsTapCall(c))

\* the calls the value v is to be dispatched as under function f
ExpectedCalls(f, v) ==
    IF f = DEVICE_FUNCTION_SCROLL THEN << <<"reportScroll", v>> >>
    ELSE IF v = 0 THEN <<>>
    ELSE IF f = DEVICE_FUNCTION_VOLUME
    THEN IF v > 0 THEN << <<"reportKey", KEY_VOLUME_UP, v>> >>
         ELSE << <<"reportKey", KEY_VOLUME_DOWN, -v>> >>
    ELSE IF v > 0 THEN << <<"reportKey", KEY_BRIGHTNESS_UP, v>> >>
         ELSE << <<"reportKey", KEY_BRIGHTNESS_DOWN, -v>> >>

\* C13: after every tick, the slide calls of the tick are exactly those the
\* value read from the oldest slot maps to under the configured function
\* (up key for v > 0, down key with -v for v < 0, none for v = 0;
\* reportScroll(v) in Scroll mode, also for v = 0), they come after the tap
\* call of the tick, and every key event carries a positive magnitude.
C13_FunctionMapping ==
    currentTime > 0 =>
        /\ SlideCalls(calls) = ExpectedCalls(function, lastChange)
        /\ \A i \in 1..Len(calls) :
              /\ calls[i][1] = "reportKey" => calls[i][3] > 0
              /\ (~IsTapCall(calls[i])) => i = Len(calls)

\* C13 witness: in Brightness mode a negative value was read and dispatched
\* as a brightness-down event of its magnitude
C13_Witness ==
    /\ function = DEVICE_FUNCTION_BRIGHTNESS
    /\ lastChange < 0
    /\ calls = << <<"reportKey", KEY_BRIGHTNESS_DOWN, -lastChange>> >>

\* the queue holding d in slot i and 0 elsewhere
OneHot(i, d) == [j \in 0..(queueSize - 1) |-> IF j = i THEN d ELSE 0]

\* the raw delta of this step's tick, 0 for none
DeltaNow ==
    ObservedDelta(TouchedChannel(channels), TouchedChannel(channels'))

\* C19: a tick that writes a raw delta d into slot 0 of an all-zero queue
\* dispatches 0 and leaves d alone in slot 1; each of the next two ticks
\* without a raw delta dispatches 0 and moves d one slot on; the third such
\* tick reads d from the oldest slot, dispatches it and leaves the queue all
\* zero.
C19_Latency ==
    [][ currentTime' = currentTime + 1 =>
          /\ (queue = ZeroQueue /\ DeltaNow # 0) =>
                 (lastChange' = 0 /\ queue' = OneHot(1, DeltaNow))
          /\ \A i \in 1..2 :
                 (DeltaNow = 0 /\ queue[i] # 0 /\ queue = OneHot(i, queue[i]))
                 => (lastChange' = 0 /\ queue' = OneHot(i + 1, queue[i]))
          /\ (DeltaNow = 0 /\ queue[3] # 0 /\ queue = OneHot(3, queue[3]))
                 => /\ lastChange' = queue[3]
                    /\ SlideCalls(calls') = ExpectedCalls(function, queue[3])
                    /\ queue' = ZeroQueue ]_vars

\* C19 witness: the finger crossed the whole strip on tick 2 and made no
\* other movement; tick 5 has dispatched that delta and the queue is empty
C19_Witness ==
    /\ currentTime = 5
    /\ Abs(lastChange) = (Len(channels) - 1) * scale
    /\ queue = ZeroQueue

----------------------------------------------------------------------------
(* Claims on the endpoint, checked under HidSpec *)

\* a report byte read as a signed 8-bit value
SignedByte(b) == IF b >= 128 THEN b - 256 ELSE b

IsScrollEvent == event # <<>> /\ event[1] = "reportScroll"
IsKeyEvent == event # <<>> /\ event[1] = "reportKey"

\* C12: after reportScroll(d), d = 0 included, and any number of completion
\* callbacks, exactly one transmission has been started for it; its scroll
\* byte is d and its consumer, modifier and key-code bytes are 0; the pending
\* scroll value and the pacing counter are 0; and no transmission of a key
\* event carries a scroll value.
C12_ScrollSingleShot ==
    /\ IsScrollEvent =>
          /\ Len(sent) = 1
          /\ SignedByte(sent[1][1]) = event[2]
          /\ sent[1][0] = 0 /\ sent[1][2] = 0 /\ sent[1][3] = 0
          /\ scroll = 0
          /\ count = 0
    /\ IsKeyEvent => \A i \in 1..Len(sent) : sent[i][1] = 0

\* C12 witness: reportScroll(0) was transmitted once, the transmission has
\* completed and nothing further was started
C12_Witness ==
    /\ event = <<"reportScroll", 0>>
    /\ Len(sent) = 1
    /\ acks = 1
    /\ ~inFlight

\* C14: the i-th transmission of reportKey(k, n) (counter 2n - i + 1 when it
\* is built) is, for odd i (counter even, down phase), the report with
\* byte2 = 0x08, byte3 = 0x0F, byte0 = 0 when k is KEY_LOCK_WORKSTATION and
\* the report with byte0 = 1 << k, byte2 = byte3 = 0 for a consumer key k in
\* 0..4, and for even i (counter odd, up phase) the all-zero report; the
\* scroll byte of all of them is 0; the counter left is 2n minus the number
\* of transmissions.
C14_ReportEncoding ==
    IsKeyEvent =>
        /\ count = 2 * event[3] - Len(sent)
        /\ \A i \in 1..Len(sent) :
              LET r == sent[i]
              IN  IF i % 2 = 0 THEN r = ZeroReport
                  ELSE IF event[2] = KEY_LOCK_WORKSTATION
                  THEN r[0] = 0 /\ r[1] = 0 /\ r[2] = 8 /\ r[3] = 15
                  ELSE /\ event[2] \in 0..4
                       /\ r[0] = 2 ^ event[2]
                       /\ r[1] = 0 /\ r[2] = 0 /\ r[3] = 0

\* C14 witness: both phases of a reportKey(KEY_LOCK_WORKSTATION, 1) went
\* out, and after it all phases of a reportKey(KEY_MIC_MUTE, n)
C14_Witness ==
    /\ IsKeyEvent
    /\ event[2] = KEY_MIC_MUTE
    /\ Len(sent) = 2 * event[3]
    /\ tally.downs[KEY_LOCK_WORKSTATION] = 1
    /\ tally.ups[KEY_LOCK_WORKSTATION] = 1

\* C17: a reportScroll call leaves the pending key as it was and the pacing
\* counter as it was, or one lower when its transmission carries the next
\* phase of the key sequence in progress.
C17_ScrollKeepsPacing ==
    [][ (event' # <<>> /\ event'[1] = "reportScroll" /\ acks' = 0) =>
            /\ key' = key
            /\ count' \in {count, IF count > 0 THEN count - 1 ELSE count} ]_vars

\* C18: whenever the counter is 0 and no transmission is in flight, every key
\* has had as many down-phase and as many up-phase transmissions as units
\* were asked for it by reportKey calls.
C18_EveryUnitTransmitted ==
    (tally.on /\ count = 0 /\ ~inFlight) =>
        \A k \in Keys :
            /\ tally.downs[k] = tally.asked[k]
            /\ tally.ups[k] = tally.asked[k]

----------------------------------------------------------------------------
(* Claim on the descriptor request handler, checked under SetupSpec *)

\* C15: after a control request, the control endpoint was handed the bytes
\* of the report descriptor, all of them and nothing else, and was not
\* stalled, if the request had bRequest = 0x06, wValue = 0x2200 and
\* wIndex = 0; for every other request it was stalled and handed nothing.
C15_DescriptorRequest ==
    request # NoRequest =>
        IF request.bRequest = 6 /\ request.wValue = 8704 /\ request.wIndex = 0
        THEN /\ control.sent = hidReportDescriptor
             /\ ~control.stalled
        ELSE /\ control.stalled
             /\ control.sent = <<>>

\* C15 witness: the report descriptor was requested and sent in full
C15_Witness ==
    /\ request = [bRequest |-> 6, wValue |-> 8704, wIndex |-> 0]
    /\ Len(control.sent) = Len(hidReportDescriptor)
    /\ control.sent[1] = 5 /\ control.sent[Len(control.sent)] = 192
    /\ ~control.stalled

----------------------------------------------------------------------------
(* Claim on the correction order of optimizeQueue, checked under QueueSpec *)

\* the positive side survives: it has the larger total magnitude
PositiveWins(q) == PositiveSum(q) > NegativeSum(q)

\* entry v is on the surviving side
Survives(v, up) == IF up THEN v > 0 ELSE v < 0

\* the total magnitude of the surviving entries of q older than entry i
OlderMagnitude(q, i, up) ==
    QueueSum([j \in 0..(queueSize - 1) |->
                 IF j > i /\ Survives(q[j], up) THEN Abs(q[j]) ELSE 0])

\* what is left of the cancelled amount c when the correction reaches
\* entry i
Remaining(q, i, up, c) ==
    IF c > OlderMagnitude(q, i, up) THEN c - OlderMagnitude(q, i, up) ELSE 0

\* the reference: minority entries 0, surviving entries reduced in
\* magnitude by min(remaining correction, own magnitude), oldest first
Reference(q) ==
    LET up == PositiveWins(q)
        c == Cancelled(q)
    IN  [i \in 0..(queueSize - 1) |->
            IF ~Survives(q[i], up) THEN 0
            ELSE LET taken == Min(Remaining(q, i, up, c), Abs(q[i]))
                 IN  IF q[i] > 0 THEN q[i] - taken ELSE q[i] + taken]

\* one run of optimizeQueue from before to after follows the reference and
\* its order; up tells that the positive side survives
CorrectionOrder(before, after, up) ==
    /\ after = Reference(before)
    /\ PositiveSum(before) = NegativeSum(before) => after = ZeroQueue
    /\ \A i \in 0..(queueSize - 1) :
          /\ after[i] * before[i] >= 0
          /\ Abs(after[i]) <= Abs(before[i])
          /\ ~Survives(before[i], up) => after[i] = 0
          /\ (Survives(before[i], up) /\ after[i] # before[i]) =>
                 \A j \in 0..(queueSize - 1) :
                    (j > i /\ Survives(before[j], up)) => after[j] = 0

\* C20: in every tick the queue after optimizeQueue equals the reference for
\* the queue before it; on a tie it is all zero; no entry changes sign or
\* grows in magnitude; every minority entry is 0; and a surviving entry is
\* reduced only if every surviving entry at a greater index has become 0.
C20_CorrectionOrder ==
    [][ currentTime' = currentTime + 1 =>
          \A before \in {QueueBefore}, after \in {QueueAfter} :
              CorrectionOrder(before, after, PositiveWins(before)) ]_vars

\* C20 witness: the first tick found positives of total 4 against negatives
\* of total 3; the positive entries in slots 3 and 2 were used up by the
\* correction and 1 is left in slot 1 (now shifted to slot 2)
C20_Witness ==
    /\ currentTime = 1
    /\ cancelled = 3
    /\ lastChange = 0
    /\ queue = [i \in 0..(queueSize - 1) |-> IF i = 2 THEN 1 ELSE 0]

----------------------------------------------------------------------------
(* Claim on the displacement through the queue, checked under LedgerSpec *)

\* C21: at the end of every tick, the sum of the values read from the oldest
\* slot so far plus the sum of the 4 queue entries equals the sum of the raw
\* (flipped and scaled) deltas written into slot 0 so far; and once 4 ticks
\* have passed without a raw delta, the total read equals the total fed in.
C21_DisplacementConserved ==
    ledger.on =>
        /\ ledger.out + QueueSum(queue) = ledger.fed
        /\ ledger.quiet >= QuietTicks => ledger.out = ledger.fed

\* C21 witness: deltas of both directions were fed in, part of them was
\* cancelled in the queue, 4 ticks have passed since the last one and the
\* net displacement has been read out
C21_Witness ==
    /\ ledger.on
    /\ ledger.quiet >= QuietTicks
    /\ ledger.fed # 0
    /\ ledger.gross > Abs(ledger.fed)
    /\ ledger.out = ledger.fed
    /\ queue = ZeroQueue

====
